---- MODULE Spec2Model ----
(***************************************************************************)
(* Model of dashboard.py: the status helpers (service_status, port_status, *)
(* get_statuses), the ServiceDash application (compose, on_mount,          *)
(* refresh_statuses), the interval timer that on_mount installs, and the   *)
(* painting of the tiles and the footer.                                   *)
(*                                                                         *)
(* All handlers run on the one thread of the application's event loop.     *)
(* refresh_statuses is a plain "def" with no await: once it is entered,    *)
(* nothing else of the application runs until it returns or raises.  The   *)
(* position inside the handler is the variable pc, so that the states in   *)
(* which a cycle is in flight can be talked about.                         *)
(***************************************************************************)
EXTENDS Integers, Sequences, FiniteSets, TLC

(* ---------------- bounds of the model ---------------- *)
MaxServices == 1
MaxPorts == 2
MaxTime == 6
MaxServiceDelay == 3

(* ---------------- program constants ---------------- *)
POLL_SECONDS == 2
PORT_TIMEOUT == 1

Labels == {"a", "b"}

(* Python's True, False and None, the three values of a status. *)
PyTrue == "True"
PyFalse == "False"
PyNone == "None"
Status == {PyTrue, PyFalse, PyNone}

VARIABLES
    SERVICES,     \* labels of the SERVICES table, in insertion order
    PORTS,        \* labels of the PORTS table, in insertion order
    pc,           \* "boot", "probing", "tiles", "idle", "crashed"
    idx,          \* position inside the loop the handler is in
    caller,       \* who entered refresh_statuses: "none", "mount", "timer"
    data,         \* the dict get_statuses is building: <<[lbl, st]>>
    statuses,     \* the dict get_statuses returned to refresh_statuses
    tiles,        \* self.tiles[label].status
    tileCycle,    \* the cycle that last wrote each tile
    footer,       \* the content of the footer bar
    now,          \* wall clock, in seconds
    timerStart,   \* start time of the interval timer, -1 while not installed
    count,        \* ticks the timer has counted (fired or skipped)
    tickDue,      \* due time of the tick that entered the current cycle
    cycle,        \* number of cycles started
    finished,     \* number of cycles that returned
    lastFinish,   \* time at which the last cycle returned
    probes,       \* number of probes run in the current cycle
    lastProbe,    \* the last probe run: kind, outcome, result
    screen,       \* what the last paint showed: cycle of each tile, footer
    cycleStart,   \* time at which the current cycle was entered
    sock,         \* the socket s of the port_status call under way
    openSockets   \* number of sockets opened and not closed

vars == <<SERVICES, PORTS, pc, idx, caller, data, statuses, tiles, tileCycle,
          footer, now, timerStart, count, tickDue, cycle, finished,
          lastFinish, probes, lastProbe, screen, cycleStart, sock, openSockets>>

(* ---------------- helpers on sequences and dicts ---------------- *)
Range(s) == {s[i] : i \in 1..Len(s)}

NoRepeat(s) == \A i, j \in 1..Len(s) : i # j => s[i] # s[j]

(* The keys of a dict literal are unique: the ordered key lists of length  *)
(* at most n over Labels.                                                  *)
KeyLists(n) == {s \in UNION {[1..k -> Labels] : k \in 0..n} : NoRepeat(s)}

Keys(d) == [i \in 1..Len(d) |-> d[i].lbl]

HasKey(d, l) == \E i \in 1..Len(d) : d[i].lbl = l

(* d[l] = v on a dict: an existing key keeps its position and takes the    *)
(* new value, a new key is appended.                                       *)
DictSet(d, l, v) ==
    IF HasKey(d, l)
    THEN [i \in 1..Len(d) |-> IF d[i].lbl = l THEN [lbl |-> l, st |-> v] ELSE d[i]]
    ELSE Append(d, [lbl |-> l, st |-> v])

(* ---------------- the status helpers ---------------- *)

(* What the service manager can answer to win_service_get(name).status():  *)
(* a state of an existing service, or one of the ways the query fails.     *)
ServiceStates == {"running", "stopped", "paused", "start_pending"}
ServiceErrors == {"no_such_service", "access_denied", "query_error"}
ServiceOutcomes == ServiceStates \cup ServiceErrors

(* What a connection attempt can end in; "socket_error" is socket.socket() *)
(* itself failing (no descriptor left), before any connect.                *)
ConnectOutcomes == {"connected", "refused", "timeout", "unreachable"}
PortOutcomes == ConnectOutcomes \cup {"socket_ok", "socket_error"}

(* service_status with "except Exception: return False".                   *)
service_status_except_false(outcome) ==
    IF outcome = "running" THEN PyTrue ELSE PyFalse

(* try: return win_service_get(name).status() == "running"                 *)
(* except Exception: return None                                           *)
service_status(outcome) ==
    IF outcome \in ServiceErrors THEN PyNone
    ELSE IF outcome = "running" THEN PyTrue ELSE PyFalse

(* connect_ex returns 0 on success and an errno otherwise.                 *)
connect_ex(outcome) == IF outcome = "connected" THEN 0 ELSE 1

(* port_status reporting a timed out connect as None.                      *)
port_status_timeout_none(outcome) ==
    IF connect_ex(outcome) = 0 THEN PyTrue
    ELSE IF outcome = "timeout" THEN PyNone ELSE PyFalse

(* return s.connect_ex((host, port)) == 0                                  *)
port_status(outcome) == IF connect_ex(outcome) = 0 THEN PyTrue ELSE PyFalse

(* port_status has no try/except: a failure of socket.socket() leaves it   *)
(* as an exception.                                                        *)
port_status_raises(outcome) == outcome = "socket_error"

(* The targets in the order get_statuses probes them: SERVICES.items(),    *)
(* then PORTS.items().                                                     *)
Targets(S, P) ==
    [i \in 1..(Len(S) + Len(P)) |->
        IF i <= Len(S) THEN [kind |-> "service", lbl |-> S[i]]
        ELSE [kind |-> "port", lbl |-> P[i - Len(S)]]]

(* ---------------- the widgets ---------------- *)

(* compose without its second loop: no Tile for the keys of PORTS.         *)
compose_services_only(S, P) == [l \in Range(S) |-> PyNone]

(* compose: one Tile per key of SERVICES and of PORTS, status None.        *)
compose(S, P) == [l \in Range(S) \cup Range(P) |-> PyNone]

(* The three sums of refresh_statuses.                                     *)
RECURSIVE CountIf(_, _)
CountIf(d, v) ==
    IF Len(d) = 0 THEN 0
    ELSE (IF d[Len(d)].st = v THEN 1 ELSE 0) + CountIf(SubSeq(d, 1, Len(d) - 1), v)

(* The up sum kept as a running total on the footer.                       *)
up_count_accumulating(d) == footer.up + CountIf(d, PyTrue)

(* The down sum written "if not s": None counts as down too.               *)
down_count_falsy(d) == CountIf(d, PyFalse) + CountIf(d, PyNone)

up_count(d) == CountIf(d, PyTrue)
down_count(d) == CountIf(d, PyFalse)
unk_count(d) == CountIf(d, PyNone)

NoProbe == [kind |-> "none", outcome |-> "none", result |-> PyNone]

(* ---------------- the event loop ---------------- *)

(* refresh_statuses as a coroutine that awaits between widget updates.     *)
RefreshYieldsBetweenTiles == {"tiles"}

(* The positions of refresh_statuses at which it gives the event loop      *)
(* back: none, it is a synchronous def and awaits nothing.                 *)
RefreshYields == {}

InFlight == IF pc \in {"probing", "tiles"} THEN 1 ELSE 0

LoopIdle == pc = "idle"

(* The application paints between handlers, never inside one.              *)
CanRender == pc \in {"boot", "idle"} \cup RefreshYields

Init ==
    /\ SERVICES \in KeyLists(MaxServices)
    /\ PORTS \in KeyLists(MaxPorts)
    /\ pc = "boot"
    /\ idx = 0
    /\ caller = "none"
    /\ data = <<>>
    /\ statuses = <<>>
    /\ tiles = compose(SERVICES, PORTS)
    /\ tileCycle = [l \in DOMAIN compose(SERVICES, PORTS) |-> 0]
    /\ footer = [up |-> 0, down |-> 0, unk |-> 0, ts |-> 0, cycle |-> 0]
    /\ now = 0
    /\ timerStart = -1
    /\ count = 0
    /\ tickDue = -1
    /\ cycle = 0
    /\ finished = 0
    /\ lastFinish = 0
    /\ probes = 0
    /\ lastProbe = NoProbe
    /\ screen = [tiles |-> [l \in DOMAIN compose(SERVICES, PORTS) |-> 0], footer |-> 0]
    /\ cycleStart = 0
    /\ sock = "none"
    /\ openSockets = 0

(* Entering refresh_statuses: get_statuses starts with data = {}.          *)
EnterRefresh(who, due) ==
    /\ pc' = "probing"
    /\ idx' = 1
    /\ caller' = who
    /\ data' = <<>>
    /\ statuses' = <<>>
    /\ cycle' = cycle + 1
    /\ tickDue' = due
    /\ probes' = 0
    /\ lastProbe' = NoProbe
    /\ cycleStart' = now

(* on_mount that only installs the timer.                                  *)
OnMountTimerOnly ==
    /\ pc = "boot"
    /\ pc' = "idle"
    /\ timerStart' = now
    /\ count' = 0
    /\ UNCHANGED <<SERVICES, PORTS, idx, caller, data, statuses, tiles, tileCycle,
                   footer, now, tickDue, cycle, finished, lastFinish, probes,
                   lastProbe, screen, cycleStart,
                   sock, openSockets>>

(* on_mount, first line: self.refresh_statuses()                           *)
OnMount ==
    /\ pc = "boot"
    /\ EnterRefresh("mount", -1)
    /\ UNCHANGED <<SERVICES, PORTS, tiles, tileCycle, footer, now, timerStart,
                   count, finished, lastFinish, screen, sock, openSockets>>

(* One service_status call of the comprehension of line 64.  The call has  *)
(* no timeout: it takes as long as the service manager takes.              *)
ProbeService ==
    /\ pc = "probing"
    /\ idx <= Len(Targets(SERVICES, PORTS))
    /\ Targets(SERVICES, PORTS)[idx].kind = "service"
    /\ \E o \in ServiceOutcomes, d \in 0..MaxServiceDelay :
        /\ now + d <= MaxTime
        /\ now' = now + d
        /\ data' = DictSet(data, Targets(SERVICES, PORTS)[idx].lbl, service_status(o))
        /\ lastProbe' = [kind |-> "service", outcome |-> o, result |-> service_status(o)]
    /\ idx' = idx + 1
    /\ probes' = probes + 1
    /\ UNCHANGED <<SERVICES, PORTS, pc, caller, statuses, tiles, tileCycle, footer,
                   timerStart, count, tickDue, cycle, finished, lastFinish, screen, cycleStart,
                   sock, openSockets>>

(* The exit of "with socket.socket() as s": s is closed, however the       *)
(* block was left; with_exit_no_close is the block without the with.       *)
with_exit_no_close(n) == n

with_exit(n) == n - 1

(* port_status, first line of the comprehension of line 65:                *)
(* socket.socket() and s.settimeout(1).  An exception of socket.socket()   *)
(* leaves get_statuses, refresh_statuses and the handler that called it,   *)
(* and the application exits.                                              *)
OpenSocket ==
    /\ pc = "probing"
    /\ idx <= Len(Targets(SERVICES, PORTS))
    /\ Targets(SERVICES, PORTS)[idx].kind = "port"
    /\ sock = "none"
    /\ \E o \in {"socket_ok", "socket_error"} :
        IF port_status_raises(o)
        THEN /\ pc' = "crashed"
             /\ lastProbe' = [kind |-> "port", outcome |-> o, result |-> "raised"]
             /\ UNCHANGED <<sock, openSockets>>
        ELSE /\ sock' = "open"
             /\ openSockets' = openSockets + 1
             /\ UNCHANGED <<pc, lastProbe>>
    /\ UNCHANGED <<SERVICES, PORTS, idx, caller, data, statuses, tiles, tileCycle,
                   footer, now, timerStart, count, tickDue, cycle, finished,
                   lastFinish, probes, screen, cycleStart>>

(* port_status, the rest: s.connect_ex(...) == 0 and the exit of the with. *)
(* settimeout(1) caps the connect: a timeout takes PORT_TIMEOUT, anything  *)
(* else at most that.                                                      *)
ProbePort ==
    /\ pc = "probing"
    /\ idx <= Len(Targets(SERVICES, PORTS))
    /\ Targets(SERVICES, PORTS)[idx].kind = "port"
    /\ sock = "open"
    /\ \E o \in ConnectOutcomes, d \in 0..PORT_TIMEOUT :
        /\ o = "timeout" => d = PORT_TIMEOUT
        /\ now + d <= MaxTime
        /\ now' = now + d
        /\ data' = DictSet(data, Targets(SERVICES, PORTS)[idx].lbl, port_status(o))
        /\ lastProbe' = [kind |-> "port", outcome |-> o, result |-> port_status(o)]
    /\ sock' = "none"
    /\ openSockets' = with_exit(openSockets)
    /\ idx' = idx + 1
    /\ probes' = probes + 1
    /\ UNCHANGED <<SERVICES, PORTS, pc, caller, statuses, tiles, tileCycle, footer,
                   timerStart, count, tickDue, cycle, finished, lastFinish, screen,
                   cycleStart>>

(* get_statuses returning once the services are probed, the port probes    *)
(* still to run.                                                           *)
GetStatusesReturnPartial ==
    /\ pc = "probing"
    /\ idx > Len(SERVICES)
    /\ sock = "none"
    /\ statuses' = data
    /\ pc' = "tiles"
    /\ idx' = 1
    /\ UNCHANGED <<SERVICES, PORTS, caller, data, tiles, tileCycle, footer, now,
                   timerStart, count, tickDue, cycle, finished, lastFinish,
                   probes, lastProbe, screen, cycleStart, sock, openSockets>>

(* get_statuses raising when there is nothing to probe.                    *)
GetStatusesReturnRaisesOnEmpty ==
    /\ pc = "probing"
    /\ idx > Len(Targets(SERVICES, PORTS))
    /\ IF Len(data) = 0
       THEN pc' = "crashed" /\ UNCHANGED <<statuses, idx>>
       ELSE statuses' = data /\ pc' = "tiles" /\ idx' = 1
    /\ UNCHANGED <<SERVICES, PORTS, caller, data, tiles, tileCycle, footer, now,
                   timerStart, count, tickDue, cycle, finished, lastFinish,
                   probes, lastProbe, screen, cycleStart, sock, openSockets>>

(* return data; statuses = get_statuses()                                  *)
GetStatusesReturn ==
    /\ pc = "probing"
    /\ idx > Len(Targets(SERVICES, PORTS))
    /\ statuses' = data
    /\ pc' = "tiles"
    /\ idx' = 1
    /\ UNCHANGED <<SERVICES, PORTS, caller, data, tiles, tileCycle, footer, now,
                   timerStart, count, tickDue, cycle, finished, lastFinish,
                   probes, lastProbe, screen, cycleStart,
                   sock, openSockets>>

(* One turn of: for label, state in statuses.items():                      *)
(*                  self.tiles[label].status = state                       *)
(* A label without a tile is a KeyError, which ends the application.       *)
SetTile ==
    /\ pc = "tiles"
    /\ idx <= Len(statuses)
    /\ IF statuses[idx].lbl \in DOMAIN tiles
       THEN /\ tiles' = [tiles EXCEPT ![statuses[idx].lbl] = statuses[idx].st]
            /\ tileCycle' = [tileCycle EXCEPT ![statuses[idx].lbl] = cycle]
            /\ idx' = idx + 1
            /\ pc' = pc
       ELSE /\ pc' = "crashed"
            /\ UNCHANGED <<tiles, tileCycle, idx>>
    /\ UNCHANGED <<SERVICES, PORTS, caller, data, statuses, footer, now,
                   timerStart, count, tickDue, cycle, finished, lastFinish,
                   probes, lastProbe, screen, cycleStart,
                   sock, openSockets>>

(* The sums and footer.update_content, and the return of the handler.      *)
(* Returning into on_mount runs its second line,                           *)
(* self.set_interval(POLL_SECONDS, self.refresh_statuses).                 *)
UpdateFooter ==
    /\ pc = "tiles"
    /\ idx > Len(statuses)
    /\ footer' = [up |-> up_count(statuses), down |-> down_count(statuses),
                  unk |-> unk_count(statuses), ts |-> now, cycle |-> cycle]
    /\ pc' = "idle"
    /\ idx' = 0
    /\ finished' = finished + 1
    /\ lastFinish' = now
    /\ IF caller = "mount"
       THEN timerStart' = now /\ count' = 0
       ELSE UNCHANGED <<timerStart, count>>
    /\ UNCHANGED <<SERVICES, PORTS, caller, data, statuses, tiles, tileCycle, now,
                   tickDue, cycle, probes, lastProbe, screen, cycleStart,
                   sock, openSockets>>

(* ---------------- the interval timer ---------------- *)

(* Due time of the tick after the count-th.                                *)
NextTimer == timerStart + (count + 1) * POLL_SECONDS

(* set_interval(..., skip=False): late ticks are fired back to back.       *)
TickIsLateNoSkip(next_timer, t) == FALSE

(* set_interval is called without skip=False: a tick whose due time has    *)
(* passed when the timer gets to it is dropped.                            *)
TickIsLate(next_timer, t) == next_timer < t

(* The loop has nothing to run: the clock advances up to the next tick.    *)
Sleep ==
    /\ LoopIdle
    /\ timerStart >= 0
    /\ now < NextTimer
    /\ now < MaxTime
    /\ now' = now + 1
    /\ UNCHANGED <<SERVICES, PORTS, pc, idx, caller, data, statuses, tiles,
                   tileCycle, footer, timerStart, count, tickDue, cycle,
                   finished, lastFinish, probes, lastProbe, screen, cycleStart,
                   sock, openSockets>>

(* The timer drops a tick that came due while the loop was busy.           *)
TimerSkip ==
    /\ LoopIdle
    /\ timerStart >= 0
    /\ TickIsLate(NextTimer, now)
    /\ count' = count + 1
    /\ UNCHANGED <<SERVICES, PORTS, pc, idx, caller, data, statuses, tiles,
                   tileCycle, footer, now, timerStart, tickDue, cycle,
                   finished, lastFinish, probes, lastProbe, screen, cycleStart,
                   sock, openSockets>>

(* The timer fires the tick that is due and calls refresh_statuses.        *)
TimerFire ==
    /\ LoopIdle
    /\ timerStart >= 0
    /\ ~TickIsLate(NextTimer, now)
    /\ now >= NextTimer
    /\ count' = count + 1
    /\ EnterRefresh("timer", NextTimer)
    /\ UNCHANGED <<SERVICES, PORTS, tiles, tileCycle, footer, now, timerStart,
                   finished, lastFinish, screen, sock, openSockets>>

(* ---------------- painting ---------------- *)

(* The screen is repainted from the widgets as they are.                   *)
Render ==
    /\ CanRender
    /\ screen' = [tiles |-> tileCycle, footer |-> footer.cycle]
    /\ screen' # screen
    /\ UNCHANGED <<SERVICES, PORTS, pc, idx, caller, data, statuses, tiles,
                   tileCycle, footer, now, timerStart, count, tickDue, cycle,
                   finished, lastFinish, probes, lastProbe, cycleStart,
                   sock, openSockets>>

Next ==
    \/ OnMount
    \/ ProbeService
    \/ OpenSocket
    \/ ProbePort
    \/ GetStatusesReturn
    \/ SetTile
    \/ UpdateFooter
    \/ Sleep
    \/ TimerSkip
    \/ TimerFire
    \/ Render

Spec == Init /\ [][Next]_vars

(* ======================= the claims ======================= *)

Collision == Range(SERVICES) \cap Range(PORTS) # {}

(* C1: the three counts of every cycle's footer add up to the number of    *)
(* configured targets, Len(SERVICES) + Len(PORTS).                         *)
C1_CountsSumToTargets ==
    footer.cycle >= 1 =>
        footer.up + footer.down + footer.unk = Len(SERVICES) + Len(PORTS)

(* C2: at most one cycle is in flight, cycles started and cycles returned  *)
(* differ by at most one, and a cycle the timer starts is started by a     *)
(* tick that did not come due while the previous cycle was running: late   *)
(* ticks are dropped, not kept for later.                                  *)
C2_OneCycleNoBacklog ==
    /\ InFlight <= 1
    /\ cycle - finished <= 1
    /\ (cycle - finished = 1 => pc \in {"probing", "tiles", "crashed"})
    /\ (caller = "timer" /\ InFlight = 1 => tickDue >= lastFinish /\ now >= tickDue)

(* C2 witness: a cycle started by the timer after a tick was dropped.      *)
C2_Witness == pc = "probing" /\ caller = "timer" /\ count > cycle - 1

(* C3: get_statuses never raises, and what it returns has an entry for     *)
(* every configured label, every probe of the cycle having run.            *)
C3_GetStatusesTotal ==
    /\ lastProbe.result # "raised"
    /\ pc = "tiles" =>
        /\ probes = Len(SERVICES) + Len(PORTS)
        /\ \A l \in Range(SERVICES) \cup Range(PORTS) : HasKey(statuses, l)

(* C4: a service probe never raises; "running" gives True, any other state *)
(* of an existing service gives False, and a missing service, a failed     *)
(* query or a denied permission gives None.                                *)
C4_ServiceTriState ==
    lastProbe.kind = "service" =>
        /\ pc # "crashed"
        /\ lastProbe.outcome = "running" => lastProbe.result = PyTrue
        /\ lastProbe.outcome \in {"stopped", "paused", "start_pending"}
              => lastProbe.result = PyFalse
        /\ lastProbe.outcome \in {"no_such_service", "access_denied", "query_error"}
              => lastProbe.result = PyNone

(* C4 witness: a service probe that was denied permission.                 *)
C4_Witness == lastProbe.kind = "service" /\ lastProbe.outcome = "access_denied"

(* C5: in every snapshot a port label holds True or False, never None; a   *)
(* connect that was accepted gives True, one that was refused, timed out   *)
(* or found the host unreachable gives False.                              *)
C5_PortNeverUnknown ==
    /\ \A i \in 1..Len(statuses) :
          statuses[i].lbl \in Range(PORTS) => statuses[i].st \in {PyTrue, PyFalse}
    /\ lastProbe.kind = "port" /\ lastProbe.outcome = "connected"
          => lastProbe.result = PyTrue
    /\ lastProbe.kind = "port" /\ lastProbe.outcome \in {"refused", "timeout", "unreachable"}
          => lastProbe.result = PyFalse

(* C5 witness: a snapshot whose last port probe timed out.                 *)
C5_Witness ==
    /\ pc = "tiles"
    /\ lastProbe.kind = "port"
    /\ lastProbe.outcome = "timeout"
    /\ \E i \in 1..Len(statuses) : statuses[i].lbl \in Range(PORTS)

(* C6: with a label that is in SERVICES and in PORTS the application is    *)
(* stopped at startup: no polling cycle ever starts.                       *)
C6_CollisionRejected == Collision => cycle = 0

(* C7: what is painted never mixes cycles: every tile on the screen and    *)
(* the footer were written by the same cycle.                              *)
C7_AtomicPublication ==
    \A l \in DOMAIN screen.tiles : screen.tiles[l] = screen.footer

(* C7 witness: a paint of the second cycle's tiles and footer.             *)
C7_Witness == screen.footer >= 2 /\ Cardinality(DOMAIN screen.tiles) >= 2

(* C8: the first cycle is entered from on_mount, at once and before the    *)
(* timer exists; the timer is installed only when that cycle has returned; *)
(* every later cycle is entered by a tick, due a whole number of           *)
(* POLL_SECONDS after the timer was installed.                             *)
C8_ImmediateFirstCycle ==
    /\ pc # "boot" => cycle >= 1
    /\ cycle = 1 => caller = "mount" /\ tickDue = -1
    /\ cycle > 1 => caller = "timer"
    /\ timerStart >= 0 => finished >= 1
    /\ timerStart < 0 => cycle <= 1 /\ count = 0
    /\ caller = "timer" =>
          /\ tickDue - timerStart >= POLL_SECONDS
          /\ (tickDue - timerStart) % POLL_SECONDS = 0

(* C8 witness: the second cycle, entered by a tick.                        *)
C8_Witness == cycle = 2 /\ pc = "probing" /\ caller = "timer"

(* C9: the snapshot lists the labels of SERVICES in their order, then the  *)
(* labels of PORTS in theirs.                                              *)
C9_ConfiguredOrder == pc = "tiles" => Keys(statuses) = SERVICES \o PORTS

(* C10: while a cycle is in flight the application can still paint.        *)
C10_PollingDoesNotBlockRendering == InFlight = 1 => CanRender

(* C11: no probe holds a cycle longer than the probe timeout: a cycle in   *)
(* flight has been running for at most PORT_TIMEOUT per probe it has run,  *)
(* so a stalled service-manager call cannot keep it in flight.             *)
C11_CycleBoundedByTimeouts ==
    InFlight = 1 => now - cycleStart <= probes * PORT_TIMEOUT

(* C12: a snapshot is handed over only when every probe of its cycle has   *)
(* run, and while cycle N+1 probes, cycle N has returned and every tile    *)
(* and the footer hold what cycle N wrote.                                 *)
C12_CycleNPublishedBeforeNext ==
    /\ pc = "tiles" => probes = Len(Targets(SERVICES, PORTS)) /\ sock = "none"
    /\ pc = "probing" /\ cycle >= 2 =>
          /\ finished = cycle - 1
          /\ footer.cycle = cycle - 1
          /\ \A l \in DOMAIN tileCycle : tileCycle[l] = cycle - 1
          /\ lastFinish <= cycleStart

(* C12 witness: the third cycle probing a port, two tiles on the screen.   *)
C12_Witness ==
    /\ pc = "probing"
    /\ cycle = 3
    /\ sock = "open"
    /\ Cardinality(DOMAIN tileCycle) = 2

(* C13: the counts on the footer are those of the cycle's snapshot and of  *)
(* nothing else, and computing them leaves the snapshot as get_statuses    *)
(* returned it; the timestamp is the time of the computation.              *)
C13_CountsFromSnapshotOnly ==
    /\ pc \in {"tiles", "idle"} => statuses = data
    /\ pc = "idle" =>
          /\ footer.cycle = cycle
          /\ footer.ts = lastFinish
          /\ footer.up = Cardinality({i \in 1..Len(statuses) : statuses[i].st = PyTrue})
          /\ footer.down = Cardinality({i \in 1..Len(statuses) : statuses[i].st = PyFalse})
          /\ footer.unk = Cardinality({i \in 1..Len(statuses) : statuses[i].st = PyNone})

(* C13 witness: a second footer with an up count, later than the first.    *)
C13_Witness ==
    /\ pc = "idle"
    /\ footer.cycle = 2
    /\ footer.up >= 1
    /\ footer.ts > 0
    /\ Len(statuses) = 2

(* C14: with SERVICES and PORTS empty a cycle runs no probe and does not   *)
(* end in an error, its snapshot is empty and its footer counts are 0.     *)
C14_ZeroTargets ==
    Len(SERVICES) = 0 /\ Len(PORTS) = 0 =>
        /\ pc # "crashed"
        /\ probes = 0
        /\ statuses = <<>>
        /\ footer.up = 0 /\ footer.down = 0 /\ footer.unk = 0
        /\ pc = "idle" => footer.cycle = cycle /\ finished = cycle

(* C14 witness: the second cycle of the empty configuration has returned.  *)
C14_Witness ==
    /\ Len(SERVICES) = 0
    /\ Len(PORTS) = 0
    /\ pc = "idle"
    /\ finished = 2

(* C15: the only socket ever open is the one of the port probe under way,  *)
(* and with no cycle in flight no socket is open.                          *)
C15_NoSocketLeak ==
    /\ openSockets = (IF sock = "open" THEN 1 ELSE 0)
    /\ InFlight = 0 => openSockets = 0
    /\ sock = "open" => pc = "probing"

(* C15 witness: after a second cycle whose last port probe timed out.      *)
C15_Witness ==
    /\ pc = "idle"
    /\ finished = 2
    /\ lastProbe.kind = "port"
    /\ lastProbe.outcome = "timeout"
    /\ openSockets = 0

(* C16: every label of a snapshot has a tile, the application never ends   *)
(* on a missing tile, and when a cycle has returned every tile holds the   *)
(* status the snapshot has for its label.                                  *)
C16_EverySnapshotLabelHasTile ==
    /\ \A i \in 1..Len(statuses) : statuses[i].lbl \in DOMAIN tiles
    /\ pc = "crashed" => lastProbe.result = "raised"
    /\ pc = "idle" =>
          /\ \A i \in 1..Len(statuses) : tiles[statuses[i].lbl] = statuses[i].st
          /\ \A l \in DOMAIN tiles : HasKey(statuses, l) /\ tileCycle[l] = cycle

(* C16 witness: a returned cycle with a service tile and a port tile.      *)
C16_Witness ==
    /\ pc = "idle"
    /\ Len(SERVICES) = 1
    /\ Len(statuses) = 2
    /\ tiles[statuses[2].lbl] = PyTrue

(* C17: with no cycle in flight and a cycle returned, the footer counts    *)
(* the tiles: up, down and unk are the numbers of tiles whose status is    *)
(* True, False and None, and footer and tiles are of the same cycle.       *)
C17_FooterCountsTiles ==
    InFlight = 0 /\ finished >= 1 =>
        /\ footer.up = Cardinality({l \in DOMAIN tiles : tiles[l] = PyTrue})
        /\ footer.down = Cardinality({l \in DOMAIN tiles : tiles[l] = PyFalse})
        /\ footer.unk = Cardinality({l \in DOMAIN tiles : tiles[l] = PyNone})
        /\ \A l \in DOMAIN tiles : tileCycle[l] = footer.cycle

(* C17 witness: a footer that counts one tile up and one tile unknown.     *)
C17_Witness ==
    /\ pc = "idle"
    /\ footer.up = 1
    /\ footer.unk = 1
    /\ footer.down = 0

====
